---- MODULE Spec2Model ----
(***************************************************************************)
(* slpk2obj: conversion of an SLPK node tree into localized textured       *)
(* meshes (src/slpk/tools/slpk2obj.cpp).                                   *)
(*                                                                         *)
(* Part I  models write(): measureMesh (level selection, OpenMP workers    *)
(*         merging node-local extents in a critical section), the center   *)
(*         of the extents and the per-node localization loop.              *)
(* Part II models rebuild(): region remap, texture-coordinate expansion,   *)
(*         packing, texture-coordinate mapping and the pixel copy.         *)
(***************************************************************************)
EXTENDS Integers, Sequences, FiniteSets, TLC

\* ------------------------------------------------------------------ bounds
\* number of nodes of the tree
MaxNodes == 2
\* levels of detail are 0..MaxLevel
MaxLevel == 1
\* source vertices are the points (c, MaxCoord - c, c), c in 0..MaxCoord
MaxCoord == 1
\* stand-in for std::numeric_limits<double>::max(); lowest() is its negation.
\* It only has to exceed every converted coordinate.
DblMax == 1000

\* the source texture is (MaxImg + 1) x MaxImg pixels
MaxImg == 3
\* Region coordinates are the multiples of 65535 / MaxGrid
MaxGrid == 2
\* number of regions of a submesh
MaxRegions == 2
\* number of faces and of texture coordinates of the mesh (remap scenario)
MaxFaces == 2
MaxTc == 2
\* texture coordinates are multiples of 1 / TcDen
TcDen == 8
\* a face's texture coordinates span up to MaxSpan repetitions of its region
MaxSpan == 2
\* stand-in for the magnitude of an int converted from an out-of-range double
IntHuge == 1000

\* std::numeric_limits<int>::max()
IntMax == 2147483647
\* Region coordinates are fixed-point fractions of 65535
Fix == 65535

VARIABLES
    tree,       \* Seq of nodes: [id, level, geometry (hasGeometry()), vertices]
    phase,      \* position of the main thread in write()/measureMesh()
    topLevel,   \* measureMesh: topLevel
    nodes,      \* measureMesh: the vector of selected nodes (indices into tree)
    wpc,        \* position of each measuring worker (one per element of nodes)
    e,          \* each worker's node-local extents
    tmp,        \* each worker's private copy of *pextents while updating it
    lock,       \* owner of critical(slpk2obj_measureMesh), 0 when free
    extents,    \* measureMesh: the shared extents
    center,     \* write: center
    localized,  \* write: per tree node, the vertices after localization
    merged      \* history: workers whose merge is complete

wvars == <<tree, phase, topLevel, nodes, wpc, e, tmp, lock, extents, center,
           localized, merged>>

VARIABLES
    regions,    \* submesh.regions: Seq of [ll, ur], fixed-point coordinates
    faces0,     \* mesh.faces as passed to rebuild
    faces,      \* mesh.faces: Seq of [ta, tb, tc, imageId]
    tc0,        \* mesh.tCoords as passed to rebuild
    tCoords,    \* mesh.tCoords: Seq of rationals [xn, xd, yn, yd]
    rpc,        \* position in rebuild()
    regionsPx,  \* rebuild: regions (pixel extents, numerators over Fix)
    uvRects,    \* rebuild: uvRects
    uvPatches,  \* rebuild: uvPatches (numerators over TcDen * Fix)
    patches,    \* rebuild: patches, Seq of [src, dst]
    atlas,      \* rebuild: size
    scaleCount, \* history: how often expand scaled each texture coordinate
    mapCount,   \* history: how often map mapped each texture coordinate
    copies,     \* history: the pixel assignments otx(j, i) = tx(jsrc, isrc)
    otx         \* rebuild: otx, atlas pixel -> source pixel it holds

rvars == <<regions, faces0, faces, tc0, tCoords, rpc, regionsPx, uvRects,
           uvPatches, patches, atlas, scaleCount, mapCount, copies, otx>>

\* ------------------------------------------------------------ math helpers
Min2(a, b) == IF a < b THEN a ELSE b
Max2(a, b) == IF a > b THEN a ELSE b

\* math::Extents2(math::InvalidExtents{}): ll = max(), ur = lowest()
InvalidExtents == [ll |-> <<DblMax, DblMax>>, ur |-> <<-DblMax, -DblMax>>]

\* a plausible slip in math::update: the point replaces the box
UpdateOverwrite(ext, p) == [ll |-> <<p[1], p[2]>>, ur |-> <<p[1], p[2]>>]

\* math::update(extents, point): grows the box to contain (x, y) of the point
update(ext, p) ==
    [ll |-> <<Min2(ext.ll[1], p[1]), Min2(ext.ll[2], p[2])>>,
     ur |-> <<Max2(ext.ur[1], p[1]), Max2(ext.ur[2], p[2])>>]

\* math::center(extents)
Center(ext) == <<(ext.ll[1] + ext.ur[1]) \div 2, (ext.ll[2] + ext.ur[2]) \div 2>>

\* DeepCopyCsCovertor::operator(): the coordinate conversion, a fixed
\* bijection that is not the identity (it keeps converted x, y even, so that
\* the center of a box of converted points is exact)
conv(v) == <<2 * v[1] + 10, 2 * v[2] - 6, v[3] + 1>>

\* MeasureMesh::addVertex over a whole geometry: the node-local extents
RECURSIVE addVertices(_, _)
addVertices(ext, vs) ==
    IF vs = <<>> THEN ext
    ELSE addVertices(update(ext, conv(Head(vs))), Tail(vs))

\* ------------------------------------------------------------------ inputs
Levels == 0..MaxLevel
Points == {<<c, MaxCoord - c, c>> : c \in 0..MaxCoord}
\* geometries: no vertex at all, or two vertices
VertexLists == {<<>>} \cup {<<p, q>> : p \in Points, q \in Points}
NodeValues ==
    {[level |-> l, geometry |-> FALSE, vertices |-> <<>>] : l \in Levels}
    \cup {[level |-> l, geometry |-> TRUE, vertices |-> vs] :
              l \in Levels, vs \in VertexLists}
Trees == [1..MaxNodes -> NodeValues]

\* ---------------------------------------------------------- measureMesh scan
\* a plausible slip: the minimum is taken over all nodes
FindTopLevelNoGeomTest(t) ==
    LET RECURSIVE Scan(_, _)
        Scan(i, top) ==
            IF i > Len(t) THEN top ELSE Scan(i + 1, Min2(top, t[i].level))
    IN Scan(1, IntMax)

\* first loop of measureMesh: topLevel
FindTopLevel(t) ==
    LET RECURSIVE Scan(_, _)
        Scan(i, top) ==
            IF i > Len(t) THEN top
            ELSE IF t[i].geometry THEN Scan(i + 1, Min2(top, t[i].level))
            ELSE Scan(i + 1, top)
    IN Scan(1, IntMax)

\* second loop of measureMesh: the nodes handed to the workers
CollectNodes(t, top) ==
    LET RECURSIVE Scan(_, _)
        Scan(i, acc) ==
            IF i > Len(t) THEN acc
            ELSE IF (t[i].level = top) /\ t[i].geometry
                 THEN Scan(i + 1, Append(acc, i))
            ELSE Scan(i + 1, acc)
    IN Scan(1, <<>>)

Workers == 1..Len(nodes)

\* the scan: both loops and the set-up of the shared extents
SelectNodes ==
    /\ phase = "scan"
    /\ topLevel' = FindTopLevel(tree)
    /\ nodes' = CollectNodes(tree, FindTopLevel(tree))
    /\ extents' = InvalidExtents
    /\ wpc' = [w \in 1..Len(nodes') |-> "start"]
    /\ e' = [w \in 1..Len(nodes') |-> InvalidExtents]
    /\ tmp' = [w \in 1..Len(nodes') |-> InvalidExtents]
    /\ phase' = "measure"
    /\ UNCHANGED <<tree, lock, center, localized, merged>>
    /\ UNCHANGED rvars

\* ------------------------------------------------------- measuring workers
\* worker body up to the critical section: load the geometry into e
LoadGeometry(w) ==
    /\ phase = "measure" /\ wpc[w] = "start"
    /\ e' = [e EXCEPT ![w] = addVertices(InvalidExtents, tree[nodes[w]].vertices)]
    /\ wpc' = [wpc EXCEPT ![w] = "loaded"]
    /\ UNCHANGED <<tree, phase, topLevel, nodes, tmp, lock, extents, center,
                   localized, merged>>
    /\ UNCHANGED rvars

\* a build where the critical section does not exclude
CriticalAlwaysFree == TRUE

\* critical(slpk2obj_measureMesh) can be entered
CriticalFree == lock = 0

\* enter the critical section and read *pextents for the first update
EnterCritical(w) ==
    /\ phase = "measure" /\ wpc[w] = "loaded"
    /\ CriticalFree
    /\ lock' = w
    /\ tmp' = [tmp EXCEPT ![w] = extents]
    /\ wpc' = [wpc EXCEPT ![w] = "ll"]
    /\ UNCHANGED <<tree, phase, topLevel, nodes, e, extents, center, localized,
                   merged>>
    /\ UNCHANGED rvars

\* math::update(*pextents, e.ll) is written back; *pextents is read again
MergeLL(w) ==
    /\ phase = "measure" /\ wpc[w] = "ll"
    /\ extents' = update(tmp[w], e[w].ll)
    /\ tmp' = [tmp EXCEPT ![w] = extents']
    /\ wpc' = [wpc EXCEPT ![w] = "ur"]
    /\ UNCHANGED <<tree, phase, topLevel, nodes, e, lock, center, localized,
                   merged>>
    /\ UNCHANGED rvars

\* math::update(*pextents, e.ur) is written back; the critical section ends
MergeUR(w) ==
    /\ phase = "measure" /\ wpc[w] = "ur"
    /\ extents' = update(tmp[w], e[w].ur)
    /\ lock' = 0
    /\ wpc' = [wpc EXCEPT ![w] = "done"]
    /\ merged' = merged \cup {w}
    /\ UNCHANGED <<tree, phase, topLevel, nodes, e, tmp, center, localized>>
    /\ UNCHANGED rvars

\* a parallel loop that does not wait for its workers
NoBarrier == TRUE

\* the implicit barrier at the end of the parallel for
WorkersJoined == \A w \in Workers : wpc[w] = "done"

\* measureMesh returns extents to write()
ReturnExtents ==
    /\ phase = "measure"
    /\ WorkersJoined
    /\ phase' = "returned"
    /\ UNCHANGED <<tree, topLevel, nodes, wpc, e, tmp, lock, extents, center,
                   localized, merged>>
    /\ UNCHANGED rvars

\* ------------------------------------------------------------------- write
NoCenter == <<>>
NotLocalized == <<"pending">>

\* const auto center(math::center(extents));
ComputeCenter ==
    /\ phase = "returned"
    /\ center' = Center(extents)
    /\ phase' = "localize"
    /\ UNCHANGED <<tree, topLevel, nodes, wpc, e, tmp, lock, extents,
                   localized, merged>>
    /\ UNCHANGED rvars

\* a plausible slip: the translation is applied before the conversion
LocalizeVertexBeforeConv(v, c) == conv(<<v[1] - c[1], v[2] - c[2], v[3]>>)

\* v = conv(v) - center
LocalizeVertex(v, c) ==
    LET p == conv(v) IN <<p[1] - c[1], p[2] - c[2], p[3]>>

\* one iteration of the second parallel loop: all vertices of one node
Localize(n) ==
    /\ phase = "localize"
    /\ localized[n] = NotLocalized
    /\ localized' = [localized EXCEPT ![n] =
           [k \in 1..Len(tree[n].vertices) |->
                LocalizeVertex(tree[n].vertices[k], center)]]
    /\ UNCHANGED <<tree, phase, topLevel, nodes, wpc, e, tmp, lock, extents,
                   center, merged>>
    /\ UNCHANGED rvars

\* ================================================================ rebuild
\* const math::Size2 txSize(tx.cols, tx.rows)
TxSize == [width |-> MaxImg + 1, height |-> MaxImg]

FloorDiv(a, d) == a \div d
CeilDiv(a, d) == -((-a) \div d)

\* remap(size, region): pixel extents size * (coord / 65535.0), kept exactly
\* as numerators over Fix (no Region coordinate of the inputs below gives a
\* pixel coordinate that rounding could move across an integer)
RemapRegion(size, region) ==
    [ll |-> <<size.width * region.ll[1], size.height * region.ll[2]>>,
     ur |-> <<size.width * region.ur[1], size.height * region.ur[2]>>]

\* imgproc::tx::Patch::Rect(uvPatch): the integer rectangle around extents
\* whose coordinates are numerators over d
RectOf(ext, d) ==
    LET px == FloorDiv(ext.ll[1], d)
        py == FloorDiv(ext.ll[2], d)
    IN [point |-> <<px, py>>,
        size |-> [width |-> CeilDiv(ext.ur[1], d) - px,
                  height |-> CeilDiv(ext.ur[2], d) - py]]

\* Rect of an uvPatch no coordinate was added to: the conversion of
\* +/-max() to int is undefined; the values builds produce
UndefinedRects ==
    {[point |-> <<-IntHuge, -IntHuge>>, size |-> [width |-> 0, height |-> 0]],
     [point |-> <<IntHuge, IntHuge>>, size |-> [width |-> 1, height |-> 1]]}

\* math::size(region), numerators over Fix
RegionSize(r) == [width |-> r.ur[1] - r.ll[1], height |-> r.ur[2] - r.ll[2]]

\* remap(rsize, tc): tc(0) *= rsize.width; tc(1) *= rsize.height
ScaleTc(rsize, t) ==
    [xn |-> t.xn * rsize.width, xd |-> t.xd * Fix,
     yn |-> t.yn * rsize.height, yd |-> t.yd * Fix]

\* imgproc::tx::UvPatch() and UvPatch::update(point)
InvalidUvPatch == [valid |-> FALSE, ll |-> <<0, 0>>, ur |-> <<0, 0>>]
UvUpdate(uvp, t) ==
    IF ~uvp.valid THEN [valid |-> TRUE, ll |-> <<t.xn, t.yn>>, ur |-> <<t.xn, t.yn>>]
    ELSE [valid |-> TRUE,
          ll |-> <<Min2(uvp.ll[1], t.xn), Min2(uvp.ll[2], t.yn)>>,
          ur |-> <<Max2(uvp.ur[1], t.xn), Max2(uvp.ur[2], t.yn)>>]

\* a plausible slip: expand without the seen test
ExpandNoSeen(st, k, rsize, index) ==
    LET t == ScaleTc(rsize, st.tc[index])
    IN [seen |-> st.seen \cup {index},
        tc |-> [st.tc EXCEPT ![index] = t],
        uvp |-> [st.uvp EXCEPT ![k] = UvUpdate(st.uvp[k], t)],
        cnt |-> [st.cnt EXCEPT ![index] = @ + 1]]

\* the expand closure: scales a coordinate not seen before with the size of
\* region k and adds it to the region's uvPatch
expand(st, k, rsize, index) ==
    IF index \in st.seen THEN st
    ELSE LET t == ScaleTc(rsize, st.tc[index])
         IN [seen |-> st.seen \cup {index},
             tc |-> [st.tc EXCEPT ![index] = t],
             uvp |-> [st.uvp EXCEPT ![k] = UvUpdate(st.uvp[k], t)],
             cnt |-> [st.cnt EXCEPT ![index] = @ + 1]]

\* for (const auto &face : mesh.faces) { expand ta, tb, tc }
RECURSIVE ExpandFaces(_, _, _, _)
ExpandFaces(st, fs, rpx, f) ==
    IF f > Len(fs) THEN st
    ELSE LET k == fs[f].imageId + 1
             rsize == RegionSize(rpx[k])
         IN ExpandFaces(
                expand(expand(expand(st, k, rsize, fs[f].ta), k, rsize, fs[f].tb),
                       k, rsize, fs[f].tc),
                fs, rpx, f + 1)

\* a plausible slip: map without the seen test
MapTcNoSeen(st, patch, size, index) ==
    LET t == st.tc[index]
    IN [seen |-> st.seen \cup {index},
        tc |-> [st.tc EXCEPT ![index] =
                 [xn |-> t.xn + (patch.dst.point[1] - patch.src.point[1]) * t.xd,
                  xd |-> t.xd * size.width,
                  yn |-> t.yn + (patch.dst.point[2] - patch.src.point[2]) * t.yd,
                  yd |-> t.yd * size.height]],
        cnt |-> [st.cnt EXCEPT ![index] = @ + 1]]

\* the map closure: patch.map({}, tc) shifts a coordinate not seen before by
\* the patch's placement, then the coordinate is divided by the atlas size
MapTc(st, patch, size, index) ==
    IF index \in st.seen THEN st
    ELSE LET t == st.tc[index]
         IN [seen |-> st.seen \cup {index},
             tc |-> [st.tc EXCEPT ![index] =
                      [xn |-> t.xn + (patch.dst.point[1] - patch.src.point[1]) * t.xd,
                       xd |-> t.xd * size.width,
                       yn |-> t.yn + (patch.dst.point[2] - patch.src.point[2]) * t.yd,
                       yd |-> t.yd * size.height]],
             cnt |-> [st.cnt EXCEPT ![index] = @ + 1]]

\* for (auto &face : mesh.faces) { map ta, tb, tc; face.imageId = 0; }
RECURSIVE MapFaceLoop(_, _, _, _, _)
MapFaceLoop(st, fs, ps, size, f) ==
    IF f > Len(fs) THEN st
    ELSE LET patch == ps[fs[f].imageId + 1]
         IN MapFaceLoop(
                MapTc(MapTc(MapTc(st, patch, size, fs[f].ta), patch, size, fs[f].tb),
                      patch, size, fs[f].tc),
                fs, ps, size, f + 1)

\* ------------------------------------------------------------------- pack
RECURSIVE SumWidth(_, _)
SumWidth(rs, k) == IF k = 0 THEN 0 ELSE SumWidth(rs, k - 1) + rs[k].size.width
RECURSIVE SumHeight(_, _)
SumHeight(rs, k) == IF k = 0 THEN 0 ELSE SumHeight(rs, k - 1) + rs[k].size.height
RECURSIVE MaxWidth(_, _)
MaxWidth(rs, k) == IF k = 0 THEN 0 ELSE Max2(MaxWidth(rs, k - 1), rs[k].size.width)
RECURSIVE MaxHeight(_, _)
MaxHeight(rs, k) == IF k = 0 THEN 0 ELSE Max2(MaxHeight(rs, k - 1), rs[k].size.height)

\* imgproc::tx::pack places the patches without overlap and returns the size
\* of the atlas; its heuristic is not fixed: the patches end up in one row or
\* in one column
Layouts == {"row", "column"}
PackPoint(rs, k, layout) ==
    IF layout = "row" THEN <<SumWidth(rs, k - 1), 0>> ELSE <<0, SumHeight(rs, k - 1)>>
PackSize(rs, layout) ==
    IF layout = "row"
    THEN [width |-> SumWidth(rs, Len(rs)), height |-> MaxHeight(rs, Len(rs))]
    ELSE [width |-> MaxWidth(rs, Len(rs)), height |-> SumHeight(rs, Len(rs))]

\* ------------------------------------------------------------- pixel copy
\* the % of C++ on ints (truncation towards zero); on a zero divisor a build
\* that does not trap leaves the dividend
CRem(a, b) ==
    IF b = 0 THEN a
    ELSE IF a >= 0 THEN a % b
    ELSE -((-a) % b)

\* a plausible slip: the source offset is not wrapped
SrcCoordNoWrap(origin, x, diff, extent) == origin + (x - diff)

\* jsrc / isrc: uvRect.point + (x - diff) % uvRect.size
SrcCoord(origin, x, diff, extent) == origin + CRem(x - diff, extent)

\* the assignments otx(j, i) = tx(jsrc, isrc) made for the patch of region k
PatchCopies(k) ==
    LET uvRect == uvRects[k]
        dstRect == patches[k].dst
        diff == <<dstRect.point[1] - uvRect.point[1],
                  dstRect.point[2] - uvRect.point[2]>>
    IN {[patch |-> k, dst |-> <<i, j>>,
         src |-> <<SrcCoord(uvRect.point[1], i, diff[1], uvRect.size.width),
                   SrcCoord(uvRect.point[2], j, diff[2], uvRect.size.height)>>] :
            <<i, j>> \in
              {<<i, j>> \in (dstRect.point[1]..(dstRect.point[1] + dstRect.size.width - 1))
                         \X (dstRect.point[2]..(dstRect.point[2] + dstRect.size.height - 1)) :
                  /\ ~((j < 0) \/ (j >= atlas.height))
                  /\ LET jsrc == SrcCoord(uvRect.point[2], j, diff[2], uvRect.size.height)
                     IN ~((jsrc < 0) \/ (jsrc >= TxSize.height))
                  /\ ~((i < 0) \/ (i >= atlas.width))
                  /\ LET isrc == SrcCoord(uvRect.point[1], i, diff[1], uvRect.size.width)
                     IN ~((isrc < 0) \/ (isrc >= TxSize.width))}}

\* a zero divisor is reached by the copy of the patch of region k
ZeroDivisor(k) ==
    LET uvRect == uvRects[k]
        dstRect == patches[k].dst
        js == {j \in dstRect.point[2]..(dstRect.point[2] + dstRect.size.height - 1) :
                  ~((j < 0) \/ (j >= atlas.height))}
        is == {i \in dstRect.point[1]..(dstRect.point[1] + dstRect.size.width - 1) :
                  ~((i < 0) \/ (i >= atlas.width))}
    IN \/ (js # {} /\ uvRect.size.height = 0)
       \/ (js # {} /\ uvRect.size.height # 0 /\ is # {} /\ uvRect.size.width = 0)

Background == <<>>
AtlasPixels == (0..(atlas.width - 1)) \X (0..(atlas.height - 1))

\* otx after the copy of patches 1..k
RECURSIVE CopyPatches(_)
CopyPatches(k) ==
    IF k = 0 THEN [p \in AtlasPixels |-> Background]
    ELSE LET before == CopyPatches(k - 1)
             cs == PatchCopies(k)
         IN [p \in AtlasPixels |->
                IF \E c \in cs : c.dst = p
                THEN (CHOOSE c \in cs : c.dst = p).src
                ELSE before[p]]

\* ---------------------------------------------------------------- actions
Regions == 1..Len(regions)

\* lines 280-285: regions in pixels and their rectangles
RemapRegions ==
    /\ rpc = "start"
    /\ regionsPx' = [k \in Regions |-> RemapRegion(TxSize, regions[k])]
    /\ uvRects' = [k \in Regions |-> RectOf(regionsPx'[k], Fix)]
    /\ rpc' = "remapped"
    /\ UNCHANGED <<regions, faces0, faces, tc0, tCoords, uvPatches, patches,
                   atlas, scaleCount, mapCount, copies, otx>>
    /\ UNCHANGED wvars

\* lines 287-312: the expanded uvPatch of every region
ExpandPatches ==
    /\ rpc = "remapped"
    /\ LET st == ExpandFaces([seen |-> {}, tc |-> tCoords,
                              uvp |-> [k \in Regions |-> InvalidUvPatch],
                              cnt |-> scaleCount],
                             faces, regionsPx, 1)
       IN /\ tCoords' = st.tc
          /\ uvPatches' = st.uvp
          /\ scaleCount' = st.cnt
    /\ rpc' = "expanded"
    /\ UNCHANGED <<regions, faces0, faces, tc0, regionsPx, uvRects, patches,
                   atlas, mapCount, copies, otx>>
    /\ UNCHANGED wvars

\* lines 314-317: patches from the uvPatches, placed by pack
Pack ==
    /\ rpc = "expanded"
    /\ \E layout \in Layouts :
       \E undef \in IF \E k \in Regions : ~uvPatches[k].valid
                    THEN UndefinedRects
                    ELSE {CHOOSE u \in UndefinedRects : TRUE} :
          LET src == [k \in Regions |->
                         IF uvPatches[k].valid
                         THEN RectOf(uvPatches[k], TcDen * Fix) ELSE undef]
          IN /\ patches' = [k \in Regions |->
                               [src |-> src[k],
                                dst |-> [point |-> PackPoint(src, k, layout),
                                         size |-> src[k].size]]]
             /\ atlas' = PackSize(src, layout)
    /\ rpc' = "packed"
    /\ UNCHANGED <<regions, faces0, faces, tc0, tCoords, regionsPx, uvRects,
                   uvPatches, scaleCount, mapCount, copies, otx>>
    /\ UNCHANGED wvars

\* lines 319-346: texture coordinates mapped into the atlas, imageId reset
MapFaces ==
    /\ rpc = "packed"
    /\ LET st == MapFaceLoop([seen |-> {}, tc |-> tCoords, cnt |-> mapCount],
                             faces, patches, atlas, 1)
       IN /\ tCoords' = st.tc
          /\ mapCount' = st.cnt
    /\ faces' = [f \in 1..Len(faces) |-> [faces[f] EXCEPT !.imageId = 0]]
    /\ rpc' = "mapped"
    /\ UNCHANGED <<regions, faces0, tc0, regionsPx, uvRects, uvPatches, patches,
                   atlas, scaleCount, copies, otx>>
    /\ UNCHANGED wvars

\* lines 348-382: the new texture; a division by zero may trap
CopyPixels ==
    /\ rpc = "mapped"
    /\ \E trap \in IF \E k \in Regions : ZeroDivisor(k)
                   THEN BOOLEAN ELSE {FALSE} :
          IF trap
          THEN /\ rpc' = "trapped"
               /\ UNCHANGED <<copies, otx>>
          ELSE /\ rpc' = "done"
               /\ copies' = UNION {PatchCopies(k) : k \in Regions}
               /\ otx' = CopyPatches(Len(regions))
    /\ UNCHANGED <<regions, faces0, faces, tc0, tCoords, regionsPx, uvRects,
                   uvPatches, patches, atlas, scaleCount, mapCount>>
    /\ UNCHANGED wvars

RebuildNext ==
    \/ RemapRegions
    \/ ExpandPatches
    \/ Pack
    \/ MapFaces
    \/ CopyPixels

\* ------------------------------------------------------------------ inputs
RegionCoords == {(k * Fix) \div MaxGrid : k \in 0..MaxGrid}
\* rectangles with ll <= ur, empty ones included
RegionValues ==
    {[ll |-> <<a, b>>, ur |-> <<c, d>>] :
        <<a, b, c, d>> \in {q \in RegionCoords \X RegionCoords \X RegionCoords
                                   \X RegionCoords : q[1] <= q[3] /\ q[2] <= q[4]}}

\* region k of n: the k-th vertical strip of the texture
StripRegion(k, n) ==
    [ll |-> <<((k - 1) * Fix) \div n, 0>>, ur |-> <<(k * Fix) \div n, Fix>>]

Rational(n, d) == [xn |-> n[1], xd |-> d, yn |-> n[2], yd |-> d]

RebuildIdle ==
    /\ regionsPx = <<>> /\ uvRects = <<>> /\ uvPatches = <<>> /\ patches = <<>>
    /\ atlas = [width |-> 0, height |-> 0]
    /\ scaleCount = [i \in 1..Len(tCoords) |-> 0]
    /\ mapCount = [i \in 1..Len(tCoords) |-> 0]
    /\ copies = {} /\ otx = <<>>

\* faces over n regions; the three corners of a face are handled alike, so a
\* face is listed with its corners in ascending order
FaceValues(n) ==
    {f \in [ta : 1..MaxTc, tb : 1..MaxTc, tc : 1..MaxTc, imageId : 0..(n - 1)] :
        f.ta <= f.tb /\ f.tb <= f.tc}

\* the empty rectangle at the lower left corner of strip k of n
EmptyRegion(k, n) == [ll |-> StripRegion(k, n).ll, ur |-> StripRegion(k, n).ll]

\* remap scenario: the faces vary over shared texture coordinates, every
\* region is referenced by a face, the regions are strips, the last of them
\* possibly empty
RemapInit ==
    /\ \E n \in 1..MaxRegions :
          /\ regions \in {[k \in 1..n |-> StripRegion(k, n)],
                          [k \in 1..n |-> IF k = n THEN EmptyRegion(k, n)
                                          ELSE StripRegion(k, n)]}
          /\ faces0 \in {fs \in [1..MaxFaces -> FaceValues(n)] :
                            \A r \in 0..(n - 1) :
                                \E f \in 1..MaxFaces : fs[f].imageId = r}
    /\ faces = faces0
    /\ tc0 = [i \in 1..MaxTc |->
                 Rational(<<2 * i - 1, 2 * (MaxTc - i) + 1>>, TcDen)]
    /\ tCoords = tc0
    /\ rpc = "start"
    /\ RebuildIdle

\* copy scenario: one region varies over all rectangles, the others are
\* strips; every region has one face with its own three coordinates, which
\* span the region span times
CopyInit ==
    /\ \E n \in 1..MaxRegions, free \in 1..MaxRegions, span \in 1..MaxSpan :
          /\ free <= n
          /\ \E r \in RegionValues :
                regions = [k \in 1..n |-> IF k = free THEN r ELSE StripRegion(k, n)]
          /\ faces0 = [k \in 1..n |->
                          [ta |-> 3 * k - 2, tb |-> 3 * k - 1, tc |-> 3 * k,
                           imageId |-> k - 1]]
          /\ tc0 = [i \in 1..(3 * n) |->
                       Rational(IF i % 3 = 1 THEN <<0, 0>>
                                ELSE IF i % 3 = 2 THEN <<span * TcDen, 0>>
                                ELSE <<0, span * TcDen>>, TcDen)]
    /\ faces = faces0
    /\ tCoords = tc0
    /\ rpc = "start"
    /\ RebuildIdle

\* rebuild is not running
NoRebuild ==
    /\ regions = <<>> /\ faces0 = <<>> /\ faces = <<>> /\ tc0 = <<>>
    /\ tCoords = <<>> /\ rpc = "idle"
    /\ RebuildIdle

\* write is not running
NoWrite ==
    /\ tree = <<>> /\ phase = "idle" /\ topLevel = IntMax /\ nodes = <<>>
    /\ wpc = <<>> /\ e = <<>> /\ tmp = <<>> /\ lock = 0
    /\ extents = InvalidExtents /\ center = <<>>
    /\ localized = <<>> /\ merged = {}

\* ------------------------------------------------- reference definitions
SeqRange(s) == {s[k] : k \in 1..Len(s)}

\* converted (x, y) of the vertices of tree node n
ConvertedXY(n) == {<<conv(v)[1], conv(v)[2]>> : v \in SeqRange(tree[n].vertices)}

\* the exact bounding box of a set of 2D points, invalid when there is none
BoundingBox(S) ==
    IF S = {} THEN InvalidExtents
    ELSE [ll |-> <<CHOOSE x \in {p[1] : p \in S} : \A q \in S : x <= q[1],
                   CHOOSE y \in {p[2] : p \in S} : \A q \in S : y <= q[2]>>,
          ur |-> <<CHOOSE x \in {p[1] : p \in S} : \A q \in S : x >= q[1],
                   CHOOSE y \in {p[2] : p \in S} : \A q \in S : y >= q[2]>>]

GeometryNodes == {i \in 1..Len(tree) : tree[i].geometry}
SelectedNonEmpty == \A w \in Workers : tree[nodes[w]].vertices # <<>>

\* indices of the geometry-bearing nodes, ascending
RECURSIVE GeomIdx(_, _)
GeomIdx(t, i) ==
    IF i > Len(t) THEN <<>>
    ELSE IF t[i].geometry THEN <<i>> \o GeomIdx(t, i + 1)
    ELSE GeomIdx(t, i + 1)

\* the tree without its nodes that have no geometry
GeomOnly(t) == [k \in 1..Len(GeomIdx(t, 1)) |-> t[GeomIdx(t, 1)[k]]]

\* measureMesh run by a single worker on tree t: the extents it returns
MeasureSequential(t) ==
    LET sel == CollectNodes(t, FindTopLevel(t))
        RECURSIVE Merge(_, _)
        Merge(k, ext) ==
            IF k > Len(sel) THEN ext
            ELSE LET loc == addVertices(InvalidExtents, t[sel[k]].vertices)
                 IN Merge(k + 1, update(update(ext, loc.ll), loc.ur))
    IN Merge(1, InvalidExtents)

\* ------------------------------------------------------------------ claims
\* C1: when every selected node has at least one vertex, the extents that
\* measureMesh returns is the bounding box of all converted vertices of the
\* selected nodes, whatever the interleaving of the workers and the order in
\* which they enter the critical section.
C1_MergeOrderIndependent ==
    (phase # "scan" /\ (\A w \in Workers : wpc[w] = "done") /\ SelectedNonEmpty)
        => extents = BoundingBox(UNION {ConvertedXY(nodes[w]) : w \in Workers})

C1_Witness ==
    /\ phase = "returned"
    /\ Len(nodes) >= 2
    /\ SelectedNonEmpty
    /\ e[1] # e[2]
    /\ extents # e[1] /\ extents # e[2]

\* C2: the selected nodes are exactly the geometry-bearing nodes at the
\* minimum level among geometry-bearing nodes; the selected level, the
\* selected nodes and the returned extents are those of the same tree with
\* every node without geometry removed.
C2_LevelSelection ==
    phase # "scan" =>
        /\ SeqRange(nodes) =
               {i \in GeometryNodes :
                    \A j \in GeometryNodes : tree[i].level <= tree[j].level}
        /\ topLevel = FindTopLevel(GeomOnly(tree))
        /\ LET g == GeomOnly(tree)
               sel == CollectNodes(g, FindTopLevel(g))
           IN nodes = [k \in 1..Len(sel) |-> GeomIdx(tree, 1)[sel[k]]]
        /\ (phase \in {"returned", "localize"}
                => extents = MeasureSequential(GeomOnly(tree)))

C2_Witness ==
    /\ phase = "returned"
    /\ nodes # <<>>
    /\ \E i \in 1..Len(tree) : ~tree[i].geometry /\ tree[i].level < topLevel

\* C4: localization starts only after every measuring worker has finished
\* its merge; the center is the center of the final extents and stays that
\* while nodes are localized; every localized vertex is conv(v) - center.
C4_LocalizeAfterMeasure ==
    /\ (phase \in {"returned", "localize"} =>
            ((\A w \in Workers : wpc[w] = "done") /\ lock = 0))
    /\ (phase = "localize" =>
            /\ center = Center(extents)
            /\ center = Center(MeasureSequential(tree)))
    /\ \A n \in 1..MaxNodes :
           localized[n] # NotLocalized =>
               /\ phase = "localize"
               /\ Len(localized[n]) = Len(tree[n].vertices)
               /\ \A k \in 1..Len(localized[n]) :
                      LET p == conv(tree[n].vertices[k])
                          c == Center(extents)
                      IN localized[n][k] = <<p[1] - c[1], p[2] - c[2], p[3]>>

C4_Witness ==
    /\ phase = "localize"
    /\ Len(nodes) >= 2
    /\ e[1] # e[2]
    /\ \A n \in 1..MaxNodes : localized[n] # NotLocalized /\ localized[n] # <<>>

\* C5: when no node has geometry, no center is derived from the empty extents
\* and no node is localized with it.
C5_NoGeometryIsDistinctOutcome ==
    GeometryNodes = {} =>
        (center = NoCenter /\ \A n \in 1..MaxNodes : localized[n] = NotLocalized)

\* C10: between merges the shared extents is the exact bounding box of the
\* converted vertices merged so far, invalid while no vertex was merged.
C10_ExactBoundingBoxSoFar ==
    (phase # "scan" /\ lock = 0)
        => extents = BoundingBox(UNION {ConvertedXY(nodes[w]) : w \in merged})

\* ---------------------------------------------------- claims about rebuild
Corners(fs, f) == {fs[f].ta, fs[f].tb, fs[f].tc}
ReferencingFaces(i) == {f \in 1..Len(faces0) : i \in Corners(faces0, f)}
FirstFace(i) == CHOOSE f \in ReferencingFaces(i) : \A g \in ReferencingFaces(i) : f <= g
PositiveRegions ==
    \A k \in DOMAIN uvRects : uvRects[k].size.width > 0 /\ uvRects[k].size.height > 0

\* C3: every copied pixel at offset (dx, dy) from its patch's destination
\* origin comes from offset (dx mod srcW, dy mod srcH) of the region's
\* source rectangle.
C3_WrapFromSourceOrigin ==
    rpc = "done" =>
        \A c \in copies :
            LET uv == uvRects[c.patch]
                d == patches[c.patch].dst
            IN (uv.size.width > 0 /\ uv.size.height > 0) =>
                   c.src = <<uv.point[1] + ((c.dst[1] - d.point[1]) % uv.size.width),
                             uv.point[2] + ((c.dst[2] - d.point[2]) % uv.size.height)>>

\* C6: after the mapping loop every texture coordinate referenced by a face
\* was scaled once and mapped once (placement shift of the patch of the first
\* face that references it, then division by the atlas size), however many
\* corners reference it; a coordinate no face references is untouched.
C6_RemappedExactlyOnce ==
    rpc \in {"mapped", "done", "trapped"} =>
        \A i \in 1..Len(tCoords) :
            IF ReferencingFaces(i) = {}
            THEN mapCount[i] = 0 /\ scaleCount[i] = 0 /\ tCoords[i] = tc0[i]
            ELSE LET r == faces0[FirstFace(i)].imageId + 1
                     rs == RegionSize(regionsPx[r])
                     pt == patches[r]
                     den == tc0[i].xd * Fix
                 IN /\ mapCount[i] = 1
                    /\ scaleCount[i] = 1
                    /\ tCoords[i] =
                         [xn |-> tc0[i].xn * rs.width
                                   + (pt.dst.point[1] - pt.src.point[1]) * den,
                          xd |-> den * atlas.width,
                          yn |-> tc0[i].yn * rs.height
                                   + (pt.dst.point[2] - pt.src.point[2]) * den,
                          yd |-> den * atlas.height]

C6_Witness ==
    /\ rpc = "done"
    /\ \E i \in 1..Len(tCoords) : ReferencingFaces(i) = {}
    /\ \E i \in 1..Len(tCoords) :
          /\ Cardinality(ReferencingFaces(i)) >= 2
          /\ \A f \in ReferencingFaces(i) : faces0[f].imageId = 0
          /\ mapCount[i] = 1
    /\ atlas.width > 0 /\ atlas.height > 0

\* C7: a region whose pixel rectangle has zero width or zero height is
\* rejected before packing: rebuild never gets to the packing, the mapping
\* or the pixel copy with it.
C7_EmptyRegionRejected ==
    (\E k \in DOMAIN uvRects :
         uvRects[k].size.width = 0 \/ uvRects[k].size.height = 0)
        => rpc \notin {"packed", "mapped", "done", "trapped"}

\* C8: a texture coordinate referenced by two faces with different imageId
\* is flagged: it is not mapped with the region of the first of the faces,
\* and rebuild does not complete.
C8_SharedCoordinateFlagged ==
    \A i \in 1..Len(tCoords) :
        (\E f, g \in ReferencingFaces(i) : faces0[f].imageId # faces0[g].imageId)
            => (mapCount[i] = 0 /\ rpc # "done")

\* C9: with regions of positive pixel size, every pixel read lies inside the
\* source image and inside the pixel rectangle of the patch's region, every
\* pixel written lies inside the atlas, and every other atlas pixel keeps the
\* default value.
C9_CopyWithinBounds ==
    (rpc = "done" /\ PositiveRegions) =>
        /\ \A c \in copies :
              LET uv == uvRects[c.patch]
              IN /\ 0 <= c.src[1] /\ c.src[1] < TxSize.width
                 /\ 0 <= c.src[2] /\ c.src[2] < TxSize.height
                 /\ uv.point[1] <= c.src[1] /\ c.src[1] < uv.point[1] + uv.size.width
                 /\ uv.point[2] <= c.src[2] /\ c.src[2] < uv.point[2] + uv.size.height
                 /\ 0 <= c.dst[1] /\ c.dst[1] < atlas.width
                 /\ 0 <= c.dst[2] /\ c.dst[2] < atlas.height
        /\ \A p \in AtlasPixels :
              \/ otx[p] = Background /\ ~(\E c \in copies : c.dst = p)
              \/ \E c \in copies : c.dst = p /\ c.src = otx[p]

C9_Witness ==
    /\ rpc = "done" /\ PositiveRegions
    /\ Len(regions) >= 2
    /\ \E c \in copies :
          /\ uvRects[c.patch].point[1] > 0
          /\ c.dst[1] - patches[c.patch].dst.point[1] >= uvRects[c.patch].size.width
    /\ \E c \in copies :
          c.dst[2] - patches[c.patch].dst.point[2] >= uvRects[c.patch].size.height

\* ----------------------------------------------------------- specification
WriteInit ==
    /\ tree \in Trees
    /\ phase = "scan"
    /\ topLevel = IntMax
    /\ nodes = <<>>
    /\ wpc = <<>>
    /\ e = <<>>
    /\ tmp = <<>>
    /\ lock = 0
    /\ extents = InvalidExtents
    /\ center = NoCenter
    /\ localized = [n \in 1..MaxNodes |-> NotLocalized]
    /\ merged = {}

Init ==
    /\ WriteInit
    /\ NoRebuild

InitRemap ==
    /\ RemapInit
    /\ NoWrite

InitCopy ==
    /\ CopyInit
    /\ NoWrite

Next ==
    \/ SelectNodes
    \/ \E w \in Workers : LoadGeometry(w)
    \/ \E w \in Workers : EnterCritical(w)
    \/ \E w \in Workers : MergeLL(w)
    \/ \E w \in Workers : MergeUR(w)
    \/ ReturnExtents
    \/ ComputeCenter
    \/ \E n \in 1..MaxNodes : Localize(n)

vars == <<wvars, rvars>>

\* write(): measureMesh and the localization loop
Spec == Init /\ [][Next]_vars

\* rebuild() on the faces of the remap scenario
SpecRemap == InitRemap /\ [][RebuildNext]_vars

\* rebuild() on the regions of the copy scenario
SpecCopy == InitCopy /\ [][RebuildNext]_vars
====
